---- MODULE Spec2Model ----
(***************************************************************************)
(* Model of the register-driven acquisition-and-publish pipeline:          *)
(*   config_loader.py  load_register_config / REGISTER_CONFIG              *)
(*   modbus_client.py  read_modbus_data                                    *)
(*   app.py            process_and_upload_sensor_data                      *)
(*   mqtt_client.py    MQTTUploader                                        *)
(*                                                                         *)
(* Python dicts are modelled as sequences of <<key, value>> pairs in       *)
(* insertion order.  Python values that may be None, int or float are      *)
(* records tagged by kind; a float is held in thousandths (milli).         *)
(***************************************************************************)
EXTENDS Integers, Sequences, FiniteSets, TLC

(* ------------------------------ bounds -------------------------------- *)
\* longest register list enumerated for the configuration source
MaxRegs == 2
\* number of device memory images enumerated
NumImages == 6
\* number of threads that may call into the pipeline
NumThreads == 2

(* ------------------------- Python dict helpers ------------------------ *)
DictKeys(d) == {d[i][1] : i \in DOMAIN d}

DictHas(d, k) == \E i \in DOMAIN d : d[i][1] = k

DictGet(d, k) == d[CHOOSE i \in DOMAIN d : d[i][1] = k][2]

\* d[k] = v: an existing key keeps its position, a new key goes last
DictSet(d, k, v) ==
    IF DictHas(d, k)
    THEN [i \in DOMAIN d |-> IF d[i][1] = k THEN <<k, v>> ELSE d[i]]
    ELSE Append(d, <<k, v>>)

(* ------------------------- Python value helpers ----------------------- *)
None == [kind |-> "none"]

IntV(n) == [kind |-> "int", v |-> n]

\* a float, in thousandths
FloatV(m) == [kind |-> "float", milli |-> m]

StrV(s) == [kind |-> "str", s |-> s]

\* an int too large for a float
BigIntV == [kind |-> "bigint"]

(* ----------------------- configuration sources ------------------------ *)
\* a dataType that YAML loads as a non-string scalar (dataType: 16)
NonStringTypes == {"!16"}

RegA == [name |-> "A", address |-> 10, dataType |-> "int16"]
RegB == [name |-> "B", address |-> 12, dataType |-> "uint16", scale |-> FloatV(100)]
RegC == [name |-> "C", address |-> 75, scale |-> StrV("x10")]
RegD == [name |-> "D", address |-> 140, dataType |-> "Signed", scale |-> IntV(2)]
RegE == [name |-> "A", address |-> 139, dataType |-> "float"]
RegF == [name |-> "F", address |-> 10, dataType |-> "uint16"]
RegG == [name |-> "G", address |-> 11, dataType |-> "!16"]
RegH == [name |-> "H", address |-> 10, dataType |-> "int16", scale |-> BigIntV]
RegNoName == [address |-> 5, dataType |-> "int16"]
RegNoAddress == [name |-> "Z", dataType |-> "int16"]

WellFormedRegs == {RegA, RegB, RegC, RegD, RegE, RegF, RegG}

RegEntries == WellFormedRegs \cup {RegNoName, RegNoAddress}

SeqsUpTo(S, n) == UNION {[1..k -> S] : k \in 0..n}

ModbusSection == [ip |-> "192.168.1.25", port |-> 1502]

\* the file register_config.yaml: absent, empty, or a document whose
\* top-level sections are optional
ConfigSources ==
    {[exists |-> FALSE, doc |-> <<>>], [exists |-> TRUE, doc |-> <<>>],
     [exists |-> TRUE, doc |-> [modbus |-> ModbusSection]]}
    \cup {[exists |-> TRUE, doc |-> [registers |-> l]] :
              l \in SeqsUpTo(RegEntries, MaxRegs)}
    \cup {[exists |-> TRUE, doc |-> [registers |-> l, modbus |-> ModbusSection]] :
              l \in SeqsUpTo(RegEntries, MaxRegs)}
    \cup {[exists |-> TRUE,
           doc |-> [registers |-> <<RegA, RegB>>,
                    modbus |-> [ip |-> "192.168.1.25", port |-> 1502, unit |-> 1],
                    site |-> "plant-1"]]}

(* --------------------------- config_loader ---------------------------- *)
\* {reg[key]: reg for reg in registers}
RECURSIVE IndexBy(_, _, _, _)
IndexBy(registers, key, i, acc) ==
    IF i > Len(registers) THEN acc
    ELSE IndexBy(registers, key, i + 1, DictSet(acc, registers[i][key], registers[i]))

\* the first register without the key raises KeyError
MissingKey(registers, key) == \E i \in DOMAIN registers : key \notin DOMAIN registers[i]

SetMax(S) == CHOOSE m \in S : \A x \in S : x <= m

SetMin(S) == CHOOSE m \in S : \A x \in S : m <= x

Raised(e) == [ok |-> FALSE, error |-> e]

Addresses(registers) == {registers[i].address : i \in DOMAIN registers}

\* max_address = 0; if registers: max_address = max(addresses)
MaxAddress(registers) == IF registers # <<>> THEN SetMax(Addresses(registers)) ELSE 0

\* min_address = 0; if registers: min_address = min(addresses)
MinAddress(registers) == IF registers # <<>> THEN SetMin(Addresses(registers)) ELSE 0

\* the formula the loader used before it counted the span (kept as a comment there)
TotalRegisterCount_from_zero(registers, max_address, min_address) ==
    IF max_address > 0 THEN max_address + 1 ELSE 0

\* the span formula without its guard for an empty list
TotalRegisterCount_unguarded(registers, max_address, min_address) ==
    max_address - min_address + 1

TotalRegisterCount(registers, max_address, min_address) ==
    IF registers # <<>> THEN max_address - min_address + 1 ELSE 0

\* the loader going on with a document that is empty
EmptyDocument_allowed(doc) == FALSE

\* if not config_data: an empty file loads as None, an empty mapping is falsy
EmptyDocument(doc) == DOMAIN doc = {}

load_register_config(file) ==
    IF ~file.exists THEN Raised("FileNotFoundError")
    ELSE IF EmptyDocument(file.doc) THEN Raised("ValueError")
    ELSE
      LET config_data == file.doc
          registers == IF "registers" \in DOMAIN config_data
                       THEN config_data.registers ELSE <<>>
          has_modbus == "modbus" \in DOMAIN config_data
      IN  IF MissingKey(registers, "name") THEN Raised("KeyError")
          ELSE IF MissingKey(registers, "address") THEN Raised("KeyError")
          ELSE
            LET max_address == MaxAddress(registers)
                min_address == MinAddress(registers)
            IN  [ok |-> TRUE,
                 raw |-> registers,
                 by_name |-> IndexBy(registers, "name", 1, <<>>),
                 by_address |-> IndexBy(registers, "address", 1, <<>>),
                 max_address |-> max_address,
                 min_address |-> min_address,
                 total_register_count |->
                     TotalRegisterCount(registers, max_address, min_address),
                 modbus_ip |-> IF has_modbus THEN StrV(config_data.modbus.ip) ELSE None,
                 modbus_port |-> IF has_modbus THEN IntV(config_data.modbus.port) ELSE None]

Unloaded == [ok |-> FALSE, error |-> "not imported"]

(* ------------------------------ the device ---------------------------- *)
\* 16-bit words a holding register may hold, around the sign boundary
SampleWords == <<65535, 0, 50, 32767, 32768, 1>>

\* the word the device holds at address a under memory image k
DeviceWord(k, a) == SampleWords[((a + k) % Len(SampleWords)) + 1]

(* ----------------------------- modbus_client -------------------------- *)
MAX_READ_COUNT == 64

signed_types == {"int16", "sint16", "signed", "short", "signed_short", "signed int16"}

\* str.lower() on the dataType strings of the configuration sources
Lower(s) ==
    CASE s = "Signed" -> "signed"
      [] s = "INT16" -> "int16"
      [] OTHER -> s

Min2(a, b) == IF a <= b THEN a ELSE b

\* count = min(MAX_READ_COUNT, highest_address_needed - start_address + 1)
ChunkCount_uncapped(start, highest) == highest - start + 1

ChunkCount(start, highest) == Min2(MAX_READ_COUNT, highest - start + 1)

\* for i, value in enumerate(response.registers): registers_read[start + i] = value
\* (a key already present keeps its place and takes the new word, the others
\* are appended in the order of the response)
StoreRegisters(registers_read, start, words) ==
    LET pairs == [i \in 1..Len(words) |-> <<start + i - 1, words[i]>>]
        IsNew(p) == ~DictHas(registers_read, p[1])
        updated == [i \in DOMAIN registers_read |->
                       LET a == registers_read[i][1]
                       IN  IF a \in start..(start + Len(words) - 1)
                           THEN <<a, words[a - start + 1]>>
                           ELSE registers_read[i]]
    IN  updated \o SelectSeq(pairs, IsNew)

\* the words a conforming device answers for (start, count)
DeviceAnswer(k, start, count) == [i \in 1..count |-> DeviceWord(k, start + i - 1)]

\* data_type.lower() raises AttributeError on a truthy non-string
LowerRaises(reg_info) ==
    "dataType" \in DOMAIN reg_info /\ reg_info.dataType \in NonStringTypes

IsSignedType(reg_info) ==
    /\ "dataType" \in DOMAIN reg_info
    /\ Lower(reg_info.dataType) \in signed_types

\* the reinterpretation with the sign bit itself left positive
Reinterpret_off_by_one(reg_info, raw_value) ==
    IF IsSignedType(reg_info)
    THEN IF raw_value > 32768 THEN raw_value - 65536 ELSE raw_value
    ELSE raw_value

Reinterpret(reg_info, raw_value) ==
    IF IsSignedType(reg_info)
    THEN IF raw_value > 32767 THEN raw_value - 65536 ELSE raw_value
    ELSE raw_value

\* the mapping loop handing on, under one more key, a word that was read at
\* an address without a definition
RECURSIVE MapRegisters_keep_gaps(_, _, _, _)
MapRegisters_keep_gaps(by_address, registers_read, i, data_dict) ==
    IF i > Len(by_address)
    THEN LET IsGap(p) == ~DictHas(by_address, p[1])
             gaps == SelectSeq(registers_read, IsGap)
         IN  IF gaps = <<>> THEN data_dict
             ELSE Append(data_dict, <<"unmapped", IntV(gaps[1][2])>>)
    ELSE
      LET address == by_address[i][1]
          reg_info == by_address[i][2]
      IN  MapRegisters_keep_gaps(by_address, registers_read, i + 1,
              DictSet(data_dict, reg_info.name,
                  IF DictHas(registers_read, address)
                  THEN IntV(Reinterpret(reg_info, DictGet(registers_read, address)))
                  ELSE None))

\* the mapping loop leaving out the registers that were not read
RECURSIVE MapRegisters_skip_missing(_, _, _, _)
MapRegisters_skip_missing(by_address, registers_read, i, data_dict) ==
    IF i > Len(by_address) THEN data_dict
    ELSE
      LET address == by_address[i][1]
          reg_info == by_address[i][2]
      IN  MapRegisters_skip_missing(by_address, registers_read, i + 1,
              IF DictHas(registers_read, address)
              THEN DictSet(data_dict, reg_info.name,
                       IntV(Reinterpret(reg_info, DictGet(registers_read, address))))
              ELSE data_dict)

\* for address, reg_info in REGISTER_CONFIG['by_address'].items(): ...
RECURSIVE MapRegisters(_, _, _, _)
MapRegisters(by_address, registers_read, i, data_dict) ==
    IF i > Len(by_address) THEN data_dict
    ELSE
      LET address == by_address[i][1]
          reg_info == by_address[i][2]
      IN  MapRegisters(by_address, registers_read, i + 1,
              DictSet(data_dict, reg_info.name,
                  IF DictHas(registers_read, address)
                  THEN IntV(Reinterpret(reg_info, DictGet(registers_read, address)))
                  ELSE None))

\* the mapping loop raises at the first defined, read register whose
\* dataType is not a string
MappingRaises(by_address, registers_read) ==
    \E i \in DOMAIN by_address :
        DictHas(registers_read, by_address[i][1]) /\ LowerRaises(by_address[i][2])

\* what the except clauses make of an exception raised inside the try:
\* both handlers return {}
ExceptClauses_connection_only(exc) ==
    IF exc = "ConnectionException" THEN [state |-> "returned", value |-> <<>>]
    ELSE [state |-> "raised", exc |-> exc]

ExceptClauses(exc) == [state |-> "returned", value |-> <<>>]

\* the while loop going on after an error response
AfterRaise_resume(exc) == IF exc = "ModbusError" THEN "rd_loop" ELSE "rd_finally"

\* raise inside the try: control leaves the loop for the handlers and the
\* finally clause
AfterRaise(exc) == "rd_finally"

\* finally: if client and client.is_socket_open(): client.close()
Finally_skipped(client_state) == client_state

Finally(client_state) == IF client_state = "open" THEN "closed" ELSE client_state

Threads == 1..NumThreads

Pending == [state |-> "pending"]

(* --------------------------------- app -------------------------------- *)
\* collect_sensor_lock.acquire(blocking=False) with its result ignored
TryAcquire_unchecked(holder) == TRUE

\* collect_sensor_lock.acquire(blocking=False): 0 is the unlocked lock
TryAcquire(holder) == holder = 0

\* the pipeline going on with an empty mapping
NoData_ignored(raw_data) == FALSE

\* if not raw_data: return
NoData(raw_data) == raw_data = <<>>

\* float(x) raises ValueError on a string that is no number
FloatRaises(x) == x.kind = "str"

\* float(x) raises OverflowError on an int too large for a float
FloatOverflows(x) == x.kind = "bigint"

\* float(x), in thousandths
ToMilli(x) == IF x.kind = "int" THEN x.v * 1000 ELSE x.milli

\* the scaling with the factor left out of the product: float(raw_value)
ScaleValue_unscaled(reg_info, raw_value) ==
    IF "scale" \in DOMAIN reg_info
    THEN IF FloatRaises(reg_info.scale) THEN raw_value
         ELSE FloatV(raw_value.v * 1000)
    ELSE raw_value

\* scale = reg_info.get('scale'); float(raw_value) * float(scale), the raw
\* value when there is no scale or the product raises
ScaleValue(reg_info, raw_value) ==
    IF "scale" \in DOMAIN reg_info
    THEN IF FloatRaises(reg_info.scale) THEN raw_value
         ELSE FloatV(raw_value.v * ToMilli(reg_info.scale))
    ELSE raw_value

\* for name, raw_value in raw_data.items(): ...
RECURSIVE ProcessData(_, _, _, _)
ProcessData(by_name, raw_data, i, processed) ==
    IF i > Len(raw_data) THEN processed
    ELSE
      LET name == raw_data[i][1]
          raw_value == raw_data[i][2]
      IN  ProcessData(by_name, raw_data, i + 1,
              DictSet(processed, name,
                  IF raw_value = None THEN None
                  ELSE IF DictHas(by_name, name)
                       THEN ScaleValue(DictGet(by_name, name), raw_value)
                       ELSE raw_value))

\* the scaling loop raises what its own handler (ValueError, TypeError) does
\* not catch
ScalingRaises(by_name, raw_data) ==
    \E i \in DOMAIN raw_data :
        /\ raw_data[i][2] # None
        /\ DictHas(by_name, raw_data[i][1])
        /\ "scale" \in DOMAIN DictGet(by_name, raw_data[i][1])
        /\ FloatOverflows(DictGet(by_name, raw_data[i][1]).scale)

\* except Exception as e: logging.error(...): every exception raised in the
\* try is caught
PipelineExcept(exc) == "exception"

\* the finally clause without its release
Release_skipped(holder) == holder

\* collect_sensor_lock.release()
Release(holder) == 0

\* current_time_app_tz.isoformat(), the time of day left open
Timestamp == StrV("<now>+08:00")

\* os.getenv('CLOUD_DEVICE_ID', 'vflow_sensor_client')
DeviceId == StrV("vflow_sensor_client")

\* processed_data with the timestamp and the device id added
Snapshot(by_name, raw_data) ==
    DictSet(DictSet(ProcessData(by_name, raw_data, 1, <<>>), "timestamp", Timestamp),
            "device_id", DeviceId)

(* ----------------------------- mqtt_client ---------------------------- *)
\* timeout = 10  # seconds
timeout == 10

\* time.sleep(0.1): ten polls to the second
PollsPerSecond == 10

\* the wait loop without its deadline
WaitGoesOn_no_deadline(connected, polls) == ~connected

\* while not self.is_connected and (time.time() - start_time) < timeout
WaitGoesOn(connected, polls) == ~connected /\ polls < timeout * PollsPerSecond

\* publish_sensor_data without its test of self.enabled
PublishDisabled_unchecked(is_enabled) == FALSE

\* if not self.enabled: return True
PublishDisabled(is_enabled) == ~is_enabled

\* connect() without its test of self.is_connected
AlreadyConnected_unchecked(connected) == FALSE

\* with self._connection_lock: if self.is_connected: return True
AlreadyConnected(connected) == connected

BulkTopic == [base |-> "vflow", path |-> "data/bulk"]

IndividualTopic(sensor_name) == [base |-> "vflow", path |-> "sensors", name |-> sensor_name]

\* the comprehension keeping the fields that are None
IsBulkField_keeps_null(item) == item[1] # "timestamp"

\* for k, v in sensor_data.items() if k != 'timestamp' and v is not None
IsBulkField(item) == item[1] # "timestamp" /\ item[2] # None

\* datetime.now().isoformat() at the instants a call may be made
Times == {StrV("<t1>"), StrV("<t2>")}

\* sensor_data.get('timestamp')
GetTimestamp(sensor_data) ==
    IF DictHas(sensor_data, "timestamp") THEN DictGet(sensor_data, "timestamp") ELSE None

\* timestamp.isoformat() raises AttributeError on a value that is neither a
\* string nor None nor a datetime
TimestampRaises(sensor_data) == GetTimestamp(sensor_data).kind \notin {"str", "none"}

\* timestamp_str: the string itself, or the time of the call for None
TimestampStr(sensor_data, now) ==
    IF GetTimestamp(sensor_data).kind = "str" THEN GetTimestamp(sensor_data) ELSE now

\* the bulk payload with the time of the call written into device_id as well
BulkPayload_stamped_device_id(sensor_data, now) ==
    LET fields == SelectSeq(sensor_data, IsBulkField)
        stamped == IF DictHas(sensor_data, "timestamp")
                   THEN DictSet(fields, "timestamp", TimestampStr(sensor_data, now))
                   ELSE fields
    IN  DictSet(stamped, "device_id", now)

\* bulk_payload: the non-null fields, then timestamp and device_id put back
BulkPayload(sensor_data, now) ==
    LET fields == SelectSeq(sensor_data, IsBulkField)
        stamped == IF DictHas(sensor_data, "timestamp")
                   THEN DictSet(fields, "timestamp", TimestampStr(sensor_data, now))
                   ELSE fields
    IN  IF DictHas(sensor_data, "device_id")
        THEN DictSet(stamped, "device_id", DictGet(sensor_data, "device_id"))
        ELSE stamped

\* publish_sensor_data going on after a connect() that failed
ConnectFailed_ignored(connect_result) == FALSE

\* if not self.connect(): return False
ConnectFailed(connect_result) == ~connect_result

\* disconnect() without its test of self.is_connected
SessionConnected_unchecked(connected) == TRUE

\* disconnect(): if self.is_connected
SessionConnected(connected) == connected

\* entering the with block whoever holds the lock
LockFree_unchecked(holder) == TRUE

\* with self._connection_lock: the caller gets past the acquire only when
\* no thread holds the lock (0)
LockFree(holder) == holder = 0

\* the result of the loop when one success is enough
AllSucceeded_any(success, total) == success > 0 \/ total = 0

\* return success_count == total_count
AllSucceeded(success, total) == success = total

\* result.rc of client.publish: without a socket the client has no connection
PublishCodes(sock) ==
    IF sock = "none" THEN {"MQTT_ERR_NO_CONN"}
    ELSE {"MQTT_ERR_SUCCESS", "MQTT_ERR_QUEUE_SIZE"}

VARIABLES
    config_file,         \* register_config.yaml
    REGISTER_CONFIG,     \* config_loader.REGISTER_CONFIG
    modbus_globals,      \* modbus_client's module constants
    boot,                \* how far the imports have got
    device,              \* the memory image of the field device
    pc,                  \* per thread: where it is
    op,                  \* per thread: the top-level call it is in
    client,              \* per thread: the ModbusTcpClient of read_modbus_data
    start_address,       \* per thread: local of read_modbus_data
    registers_read,      \* per thread: local of read_modbus_data
    requests,            \* per thread: the (start, count) requests sent this cycle
    rd_exc,              \* per thread: the exception the cycle raised inside the try
    rd_ret,              \* per thread: what read_modbus_data handed its caller
    collect_sensor_lock, \* app.collect_sensor_lock: 0, or the thread that holds it
    pl_outcome,          \* per thread: how this invocation of the pipeline went
    processed_data,      \* per thread: local of process_and_upload_sensor_data
    enabled,             \* MQTTUploader.enabled
    publish_individual,  \* MQTT_PUBLISH_INDIVIDUAL
    is_connected,        \* MQTTUploader.is_connected
    connection_lock,     \* MQTTUploader._connection_lock: 0, or its holder
    mq_sock,             \* the client's socket: none, awaiting (CONNACK), established
    loop_running,        \* the client's background network loop
    elapsed,             \* per thread: polls slept in connect()'s wait
    cn_path,             \* per thread: the way connect() returned
    cn_ret,              \* per thread: what connect() returned
    net_io,              \* per thread: client calls made by the current call
    pubs,                \* per thread: messages handed to client.publish
    ps_ret,              \* per thread: what publish_sensor_data returned
    ind_todo,            \* per thread: fields the individual loop has yet to visit
    success_count,       \* per thread: local of publish_sensor_data
    total_count,         \* per thread: local of publish_sensor_data
    timestamp_str,       \* per thread: local of publish_sensor_data
    handed               \* the (sensor_data, bulk payload) pairs of the direct calls

catalogVars == <<config_file, REGISTER_CONFIG, modbus_globals, boot, device>>

readVars == <<client, start_address, registers_read, requests, rd_exc, rd_ret>>

pipeVars == <<collect_sensor_lock, pl_outcome, processed_data>>

sessionVars == <<enabled, publish_individual, is_connected, connection_lock, mq_sock,
                 loop_running>>

connectVars == <<elapsed, cn_path, cn_ret, net_io>>

publishVars == <<pubs, ps_ret, ind_todo, success_count, total_count, timestamp_str,
                 handed>>

mqttVars == <<sessionVars, connectVars, publishVars>>

vars == <<catalogVars, pc, op, readVars, pipeVars, mqttVars>>

NoGlobals == [ok |-> FALSE]

NoReturn == [state |-> "pending"]

\* import config_loader: REGISTER_CONFIG = load_register_config(); an
\* exception here ends the process before anything else runs
ImportConfig ==
    /\ boot = "start"
    /\ REGISTER_CONFIG' = load_register_config(config_file)
    /\ boot' = IF REGISTER_CONFIG'.ok THEN "config_loaded" ELSE "crashed"
    /\ UNCHANGED <<config_file, modbus_globals, device, pc, op, readVars, pipeVars, mqttVars>>

\* import modbus_client: the module constants; int(None) raises TypeError
\* when the configuration has no modbus port
ImportModbusClient ==
    /\ boot = "config_loaded"
    /\ IF REGISTER_CONFIG.modbus_port = None
       THEN /\ boot' = "crashed"
            /\ UNCHANGED modbus_globals
       ELSE /\ boot' = "running"
            /\ modbus_globals' =
                   [ok |-> TRUE,
                    MODBUS_IP |-> REGISTER_CONFIG.modbus_ip,
                    MODBUS_PORT |-> REGISTER_CONFIG.modbus_port.v,
                    MAX_ADDRESS_TO_READ |-> REGISTER_CONFIG.max_address,
                    MIN_ADDRESS_TO_READ |-> REGISTER_CONFIG.min_address]
    /\ UNCHANGED <<config_file, REGISTER_CONFIG, device, pc, op, readVars, pipeVars, mqttVars>>

(* ---- set_modbus_config ---- *)

\* if not ip or not port: None, the empty string and 0 are falsy
Falsy(x) ==
    \/ x.kind = "none"
    \/ x.kind = "str" /\ x.s = ""
    \/ x.kind = "int" /\ x.v = 0

\* int(port) raises ValueError on a string that is no number
IntRaises(x) == x.kind = "str" /\ x.s \notin {"502", "1502"}

\* int(port)
ToInt(x) ==
    CASE x.kind = "int" -> x.v
      [] x.kind = "str" /\ x.s = "502" -> 502
      [] x.kind = "str" /\ x.s = "1502" -> 1502

\* d[key] = value on a mapping with string keys
WithKey(d, key, value) ==
    [k \in DOMAIN d \cup {key} |-> IF k = key THEN value ELSE d[k]]

\* the file written with nothing but the device section
UpdateModbus_section_only(file, ip, port) ==
    IF Falsy(ip) \/ Falsy(port) \/ ~file.exists \/ DOMAIN file.doc = {} \/ IntRaises(port)
    THEN file
    ELSE [exists |-> TRUE, doc |-> [modbus |-> [ip |-> ip.s, port |-> ToInt(port)]]]

\* register_config.yaml after set_modbus_config: untouched when the request
\* is rejected (400) or anything raises before the file is opened for
\* writing (500); otherwise the loaded document with modbus.ip and
\* modbus.port set, dumped back
UpdateModbus(file, ip, port) ==
    IF Falsy(ip) \/ Falsy(port) \/ ~file.exists \/ DOMAIN file.doc = {} \/ IntRaises(port)
    THEN file
    ELSE LET config_data == file.doc
             section == IF "modbus" \in DOMAIN config_data
                        THEN config_data.modbus ELSE <<>>
         IN  [exists |-> TRUE,
              doc |-> WithKey(config_data, "modbus",
                          WithKey(WithKey(section, "ip", ip.s), "port", ToInt(port)))]

\* the ip and port values a request may carry
RequestIps == {StrV("10.0.0.5"), StrV("10.0.0.6"), StrV(""), None}

RequestPorts == {IntV(502), StrV("1502"), StrV("tcp"), None}

\* POST /api/set-modbus-config on the running application
SetModbusConfig(ip, port) ==
    /\ boot = "running"
    /\ config_file' = UpdateModbus(config_file, ip, port)
    /\ UNCHANGED <<REGISTER_CONFIG, modbus_globals, boot, device, pc, op, readVars,
                   pipeVars, mqttVars>>

(* ---- read_modbus_data, one step per exchange with the device ---- *)

\* where read_modbus_data returns to
AfterRead(t) == IF op[t] = "read" THEN "done" ELSE "pl_after_read"

\* a direct call of read_modbus_data (the module's own __main__, a live read)
CallRead(t) ==
    /\ boot = "running"
    /\ pc[t] = "idle"
    /\ op' = [op EXCEPT ![t] = "read"]
    /\ pc' = [pc EXCEPT ![t] = "rd_connect"]
    /\ UNCHANGED <<catalogVars, readVars, pipeVars, mqttVars>>

\* an exception inside the try: the handlers run, then the finally
RaiseInTry(t, exc, sock) ==
    /\ rd_exc' = [rd_exc EXCEPT ![t] = exc]
    /\ rd_ret' = [rd_ret EXCEPT ![t] = ExceptClauses(exc)]
    /\ client' = [client EXCEPT ![t] = sock]
    /\ pc' = [pc EXCEPT ![t] = AfterRaise(exc)]

\* client = get_modbus_client(); if not client.connect(): raise ConnectionException
ReadConnect(t) ==
    /\ pc[t] = "rd_connect"
    /\ \/ /\ client' = [client EXCEPT ![t] = "open"]
          /\ start_address' = [start_address EXCEPT ![t] = modbus_globals.MIN_ADDRESS_TO_READ]
          /\ registers_read' = [registers_read EXCEPT ![t] = <<>>]
          /\ pc' = [pc EXCEPT ![t] = "rd_loop"]
          /\ UNCHANGED <<rd_exc, rd_ret>>
       \/ /\ RaiseInTry(t, "ConnectionException", "closed")
          /\ UNCHANGED <<start_address, registers_read>>
    /\ UNCHANGED <<catalogVars, op, requests, pipeVars, mqttVars>>

\* one turn of the while loop: one read_holding_registers request
ReadChunk(t) ==
    /\ pc[t] = "rd_loop"
    /\ start_address[t] <= modbus_globals.MAX_ADDRESS_TO_READ
    /\ LET start == start_address[t]
           count == ChunkCount(start, modbus_globals.MAX_ADDRESS_TO_READ)
       IN  IF count <= 0
           THEN /\ pc' = [pc EXCEPT ![t] = "rd_map"]
                /\ UNCHANGED <<readVars>>
           ELSE /\ requests' = [requests EXCEPT ![t] = Append(@, <<start, count>>)]
                /\ \/ \* response.isError(): raise Exception
                      /\ RaiseInTry(t, "ModbusError", "open")
                      /\ UNCHANGED <<start_address, registers_read>>
                   \/ \* the request itself raises: the connection was lost
                      /\ \E sock \in {"open", "closed"} :
                             RaiseInTry(t, "ConnectionException", sock)
                      /\ UNCHANGED <<start_address, registers_read>>
                   \/ \* no registers in the response: warn and go on
                      /\ start_address' = [start_address EXCEPT ![t] = start + count]
                      /\ UNCHANGED <<registers_read, client, rd_exc, rd_ret, pc>>
                   \/ \* the words of the chunk
                      /\ registers_read' = [registers_read EXCEPT ![t] =
                             StoreRegisters(@, start, DeviceAnswer(device, start, count))]
                      /\ start_address' = [start_address EXCEPT ![t] = start + count]
                      /\ UNCHANGED <<client, rd_exc, rd_ret, pc>>
    /\ UNCHANGED <<catalogVars, op, pipeVars, mqttVars>>

\* the loop condition fails: map the words to names and return data_dict
ReadMap(t) ==
    /\ pc[t] = "rd_loop"
    /\ ~(start_address[t] <= modbus_globals.MAX_ADDRESS_TO_READ)
    /\ IF MappingRaises(REGISTER_CONFIG.by_address, registers_read[t])
       THEN RaiseInTry(t, "AttributeError", client[t])
       ELSE /\ rd_ret' = [rd_ret EXCEPT ![t] = [state |-> "returned", value |->
                   MapRegisters(REGISTER_CONFIG.by_address, registers_read[t], 1, <<>>)]]
            /\ pc' = [pc EXCEPT ![t] = "rd_finally"]
            /\ UNCHANGED <<client, rd_exc>>
    /\ UNCHANGED <<catalogVars, op, start_address, registers_read, requests, pipeVars,
                   mqttVars>>

\* the finally clause, then the return (or the propagating exception)
ReadFinally(t) ==
    /\ pc[t] = "rd_finally"
    /\ client' = [client EXCEPT ![t] = Finally(@)]
    /\ pc' = [pc EXCEPT ![t] = AfterRead(t)]
    /\ UNCHANGED <<catalogVars, op, start_address, registers_read, requests, rd_exc,
                   rd_ret, pipeVars, mqttVars>>

ReadStep(t) ==
    \/ ReadConnect(t)
    \/ ReadChunk(t)
    \/ ReadMap(t)
    \/ ReadFinally(t)

(* ---- process_and_upload_sensor_data ---- *)

\* the scheduler fires the job: the call starts with the non-blocking
\* acquire, and without the lock it logs a warning and returns
Tick(t) ==
    /\ boot = "running"
    /\ pc[t] = "idle"
    /\ op' = [op EXCEPT ![t] = "pipeline"]
    /\ IF TryAcquire(collect_sensor_lock)
       THEN /\ collect_sensor_lock' = t
            /\ pl_outcome' = [pl_outcome EXCEPT ![t] = "acquired"]
            /\ pc' = [pc EXCEPT ![t] = "rd_connect"]
       ELSE /\ pl_outcome' = [pl_outcome EXCEPT ![t] = "skipped"]
            /\ pc' = [pc EXCEPT ![t] = "done"]
            /\ UNCHANGED collect_sensor_lock
    /\ UNCHANGED <<catalogVars, readVars, processed_data, mqttVars>>

\* raw_data = read_modbus_data(); if not raw_data: return; else the scaling
\* loop, the timestamp and the device id, up to the call of upload_to_cloud
PlAfterRead(t) ==
    /\ pc[t] = "pl_after_read"
    /\ IF rd_ret[t].state = "raised"
       THEN /\ pl_outcome' = [pl_outcome EXCEPT ![t] = PipelineExcept(rd_ret[t].exc)]
            /\ pc' = [pc EXCEPT ![t] = "pl_finally"]
            /\ UNCHANGED processed_data
       ELSE IF NoData(rd_ret[t].value)
       THEN /\ pl_outcome' = [pl_outcome EXCEPT ![t] = "no_data"]
            /\ pc' = [pc EXCEPT ![t] = "pl_finally"]
            /\ UNCHANGED processed_data
       ELSE IF ScalingRaises(REGISTER_CONFIG.by_name, rd_ret[t].value)
       THEN /\ pl_outcome' = [pl_outcome EXCEPT ![t] = PipelineExcept("OverflowError")]
            /\ pc' = [pc EXCEPT ![t] = "pl_finally"]
            /\ UNCHANGED processed_data
       ELSE /\ processed_data' = [processed_data EXCEPT ![t] =
                   Snapshot(REGISTER_CONFIG.by_name, rd_ret[t].value)]
            /\ pc' = [pc EXCEPT ![t] = "ps_entry"]
            /\ UNCHANGED pl_outcome
    /\ UNCHANGED <<catalogVars, op, readVars, collect_sensor_lock, mqttVars>>

\* the locals of the calls thread t was in are gone
ClearLocals(t) ==
    /\ client' = [client EXCEPT ![t] = "none"]
    /\ start_address' = [start_address EXCEPT ![t] = 0]
    /\ registers_read' = [registers_read EXCEPT ![t] = <<>>]
    /\ requests' = [requests EXCEPT ![t] = <<>>]
    /\ rd_exc' = [rd_exc EXCEPT ![t] = "none"]
    /\ rd_ret' = [rd_ret EXCEPT ![t] = NoReturn]
    /\ processed_data' = [processed_data EXCEPT ![t] = <<>>]
    /\ elapsed' = [elapsed EXCEPT ![t] = 0]
    /\ cn_path' = [cn_path EXCEPT ![t] = "none"]
    /\ cn_ret' = [cn_ret EXCEPT ![t] = FALSE]
    /\ net_io' = [net_io EXCEPT ![t] = {}]
    /\ pubs' = [pubs EXCEPT ![t] = <<>>]
    /\ ps_ret' = [ps_ret EXCEPT ![t] = NoReturn]
    /\ ind_todo' = [ind_todo EXCEPT ![t] = <<>>]
    /\ success_count' = [success_count EXCEPT ![t] = 0]
    /\ total_count' = [total_count EXCEPT ![t] = 0]
    /\ timestamp_str' = [timestamp_str EXCEPT ![t] = None]
    /\ UNCHANGED handed

\* finally: collect_sensor_lock.release(), and the function returns
PlFinally(t) ==
    /\ pc[t] = "pl_finally"
    /\ collect_sensor_lock' = Release(collect_sensor_lock)
    /\ pc' = [pc EXCEPT ![t] = "done"]
    /\ ClearLocals(t)
    /\ UNCHANGED <<catalogVars, op, pl_outcome, sessionVars>>

\* the caller takes the thread back
Return(t) ==
    /\ pc[t] = "done"
    /\ pc' = [pc EXCEPT ![t] = "idle"]
    /\ op' = [op EXCEPT ![t] = "none"]
    /\ pl_outcome' = [pl_outcome EXCEPT ![t] = "none"]
    /\ ClearLocals(t)
    /\ UNCHANGED <<catalogVars, collect_sensor_lock, sessionVars>>

(* ---- MQTTUploader.connect ---- *)

\* where connect() returns to
AfterConnect(t) == IF op[t] = "connect" THEN "done" ELSE "ps_after_connect"

ConnectReturns(t, value, path) ==
    /\ cn_ret' = [cn_ret EXCEPT ![t] = value]
    /\ cn_path' = [cn_path EXCEPT ![t] = path]
    /\ pc' = [pc EXCEPT ![t] = AfterConnect(t)]

\* if not self.enabled: return False
CnEntry(t) ==
    /\ pc[t] = "cn_entry"
    /\ IF ~enabled
       THEN ConnectReturns(t, FALSE, "disabled")
       ELSE /\ pc' = [pc EXCEPT ![t] = "cn_lock"]
            /\ UNCHANGED <<cn_ret, cn_path>>
    /\ UNCHANGED <<catalogVars, op, readVars, pipeVars, sessionVars, elapsed, net_io,
                   publishVars>>

\* with self._connection_lock: if self.is_connected: return True
CnLock(t) ==
    /\ pc[t] = "cn_lock"
    /\ LockFree(connection_lock)
    /\ IF AlreadyConnected(is_connected)
       THEN /\ ConnectReturns(t, TRUE, "already")
            /\ UNCHANGED connection_lock
       ELSE /\ connection_lock' = t
            /\ pc' = [pc EXCEPT ![t] = "cn_connect"]
            /\ UNCHANGED <<cn_ret, cn_path>>
    /\ UNCHANGED <<catalogVars, op, readVars, pipeVars, enabled, publish_individual,
                   is_connected, mq_sock, loop_running, elapsed, net_io, publishVars>>

\* self.client.connect(...); self.client.loop_start(); start_time = time.time()
\* or the exception of a transport that cannot be set up: return False
CnConnect(t) ==
    /\ pc[t] = "cn_connect"
    /\ \/ /\ mq_sock' = "awaiting"
          /\ loop_running' = TRUE
          /\ net_io' = [net_io EXCEPT ![t] = @ \cup {"connect", "loop_start"}]
          /\ elapsed' = [elapsed EXCEPT ![t] = 0]
          /\ pc' = [pc EXCEPT ![t] = "cn_wait"]
          /\ UNCHANGED <<cn_ret, cn_path, connection_lock>>
       \/ /\ mq_sock' = "none"
          /\ net_io' = [net_io EXCEPT ![t] = @ \cup {"connect"}]
          /\ ConnectReturns(t, FALSE, "exception")
          /\ connection_lock' = 0
          /\ UNCHANGED <<loop_running, elapsed>>
    /\ UNCHANGED <<catalogVars, op, readVars, pipeVars, enabled, publish_individual,
                   is_connected, publishVars>>

\* while not self.is_connected and (time.time() - start_time) < timeout: sleep
CnPoll(t) ==
    /\ pc[t] = "cn_wait"
    /\ WaitGoesOn(is_connected, elapsed[t])
    /\ elapsed' = [elapsed EXCEPT ![t] = @ + 1]
    /\ UNCHANGED <<catalogVars, pc, op, readVars, pipeVars, sessionVars, cn_path, cn_ret,
                   net_io, publishVars>>

\* the loop condition fails; start_time is not read again
CnWaitOver(t) ==
    /\ pc[t] = "cn_wait"
    /\ ~WaitGoesOn(is_connected, elapsed[t])
    /\ pc' = [pc EXCEPT ![t] = "cn_result"]
    /\ elapsed' = [elapsed EXCEPT ![t] = 0]
    /\ UNCHANGED <<catalogVars, op, readVars, pipeVars, sessionVars, cn_path, cn_ret,
                   net_io, publishVars>>

\* if self.is_connected: return True; else: return False
CnResult(t) ==
    /\ pc[t] = "cn_result"
    /\ ConnectReturns(t, is_connected, "handshake")
    /\ connection_lock' = 0
    /\ UNCHANGED <<catalogVars, op, readVars, pipeVars, enabled, publish_individual,
                   is_connected, mq_sock, loop_running, elapsed, net_io, publishVars>>

ConnectStep(t) ==
    \/ CnEntry(t)
    \/ CnLock(t)
    \/ CnConnect(t)
    \/ CnPoll(t)
    \/ CnWaitOver(t)
    \/ CnResult(t)

(* ---- MQTTUploader.publish_sensor_data, through upload_to_mqtt ---- *)

\* where publish_sensor_data returns to
AfterPublish(t) == IF op[t] = "publish" THEN "done" ELSE "pl_finally"

PublishReturns(t, value) ==
    /\ ps_ret' = [ps_ret EXCEPT ![t] = [state |-> "returned", value |-> value]]
    /\ pc' = [pc EXCEPT ![t] = AfterPublish(t)]

\* if not self.enabled: return True; else self.connect()
PsEntry(t) ==
    /\ pc[t] = "ps_entry"
    /\ IF PublishDisabled(enabled)
       THEN PublishReturns(t, TRUE)
       ELSE /\ pc' = [pc EXCEPT ![t] = "cn_entry"]
            /\ UNCHANGED ps_ret
    /\ UNCHANGED <<catalogVars, op, readVars, pipeVars, sessionVars, connectVars, pubs,
                   ind_todo, success_count, total_count, timestamp_str, handed>>

\* if not self.connect(): return False; else the bulk payload is built and
\* published; a failed publish returns False, and so does an exception
PsBulk(t) ==
    /\ pc[t] = "ps_after_connect"
    /\ IF ConnectFailed(cn_ret[t]) \/ TimestampRaises(processed_data[t])
       THEN /\ PublishReturns(t, FALSE)
            /\ UNCHANGED <<pubs, ind_todo, timestamp_str, handed>>
       ELSE \E now \in Times, rc \in PublishCodes(mq_sock) :
            LET payload == BulkPayload(processed_data[t], now)
            IN  /\ timestamp_str' = [timestamp_str EXCEPT ![t] =
                       TimestampStr(processed_data[t], now)]
                /\ pubs' = [pubs EXCEPT ![t] = Append(@,
                       [topic |-> BulkTopic, payload |-> payload, rc |-> rc])]
                /\ handed' = IF op[t] = "publish"
                             THEN handed \cup {<<processed_data[t], payload>>}
                             ELSE handed
                /\ IF rc # "MQTT_ERR_SUCCESS"
                   THEN /\ PublishReturns(t, FALSE)
                        /\ UNCHANGED ind_todo
                   ELSE IF publish_individual
                   THEN /\ ind_todo' = [ind_todo EXCEPT ![t] =
                               SelectSeq(processed_data[t], IsBulkField)]
                        /\ pc' = [pc EXCEPT ![t] = "ps_individual"]
                        /\ UNCHANGED ps_ret
                   ELSE /\ PublishReturns(t, TRUE)
                        /\ UNCHANGED ind_todo
    /\ UNCHANGED <<catalogVars, op, readVars, pipeVars, sessionVars, connectVars,
                   success_count, total_count>>

\* one turn of the loop over sensor_data.items(), or its end:
\* return success_count == total_count
PsIndividual(t) ==
    /\ pc[t] = "ps_individual"
    /\ IF ind_todo[t] = <<>>
       THEN /\ PublishReturns(t, AllSucceeded(success_count[t], total_count[t]))
            /\ UNCHANGED <<pubs, ind_todo, success_count, total_count>>
       ELSE \E rc \in PublishCodes(mq_sock) :
            LET sensor_name == Head(ind_todo[t])[1]
                value == Head(ind_todo[t])[2]
            IN  /\ total_count' = [total_count EXCEPT ![t] = @ + 1]
                /\ pubs' = [pubs EXCEPT ![t] = Append(@,
                       [topic |-> IndividualTopic(sensor_name),
                        payload |-> <<<<"timestamp", timestamp_str[t]>>,
                                      <<"value", value>>,
                                      <<"sensor", StrV(sensor_name)>>,
                                      <<"device_id", StrV("<client_id>")>>>>,
                        rc |-> rc])]
                /\ success_count' = [success_count EXCEPT ![t] =
                       IF rc = "MQTT_ERR_SUCCESS" THEN @ + 1 ELSE @]
                /\ ind_todo' = [ind_todo EXCEPT ![t] = Tail(@)]
                /\ UNCHANGED <<pc, ps_ret>>
    /\ UNCHANGED <<catalogVars, op, readVars, pipeVars, sessionVars, connectVars,
                   timestamp_str, handed>>

PublishStep(t) ==
    \/ PsEntry(t)
    \/ PsBulk(t)
    \/ PsIndividual(t)

(* ---- MQTTUploader.disconnect ---- *)

\* if self.is_connected: ... ; otherwise the call is over
DcEntry(t) ==
    /\ pc[t] = "dc_entry"
    /\ pc' = [pc EXCEPT ![t] = IF SessionConnected(is_connected) THEN "dc_stop" ELSE "done"]
    /\ UNCHANGED <<catalogVars, op, readVars, pipeVars, mqttVars>>

\* self.client.loop_stop(): the network loop thread is joined
DcStop(t) ==
    /\ pc[t] = "dc_stop"
    /\ loop_running' = FALSE
    /\ net_io' = [net_io EXCEPT ![t] = @ \cup {"loop_stop"}]
    /\ pc' = [pc EXCEPT ![t] = "dc_disconnect"]
    /\ UNCHANGED <<catalogVars, op, readVars, pipeVars, enabled, publish_individual,
                   is_connected, connection_lock, mq_sock, elapsed, cn_path, cn_ret,
                   publishVars>>

\* self.client.disconnect(): without a socket the client sends nothing; with
\* the loop stopped it writes DISCONNECT itself, runs _on_disconnect and
\* closes the socket; with a loop running the loop does that later
DcDisconnect(t) ==
    /\ pc[t] = "dc_disconnect"
    /\ net_io' = [net_io EXCEPT ![t] = @ \cup {"disconnect"}]
    /\ IF mq_sock # "none" /\ ~loop_running
       THEN /\ mq_sock' = "none"
            /\ is_connected' = FALSE
       ELSE UNCHANGED <<mq_sock, is_connected>>
    /\ pc' = [pc EXCEPT ![t] = "done"]
    /\ UNCHANGED <<catalogVars, op, readVars, pipeVars, enabled, publish_individual,
                   connection_lock, loop_running, elapsed, cn_path, cn_ret, publishVars>>

DisconnectStep(t) ==
    \/ DcEntry(t)
    \/ DcStop(t)
    \/ DcDisconnect(t)

(* ---- direct calls into the uploader (test_connection, upload_to_mqtt) ---- *)

\* uploader.connect()
CallConnect(t) ==
    /\ pc[t] = "idle"
    /\ op' = [op EXCEPT ![t] = "connect"]
    /\ pc' = [pc EXCEPT ![t] = "cn_entry"]
    /\ UNCHANGED <<catalogVars, readVars, pipeVars, mqttVars>>

\* uploader.disconnect()
CallDisconnect(t) ==
    /\ pc[t] = "idle"
    /\ op' = [op EXCEPT ![t] = "disconnect"]
    /\ pc' = [pc EXCEPT ![t] = "dc_entry"]
    /\ UNCHANGED <<catalogVars, readVars, pipeVars, mqttVars>>

\* upload_to_mqtt(sensor_data)
CallPublish(t, sensor_data) ==
    /\ pc[t] = "idle"
    /\ op' = [op EXCEPT ![t] = "publish"]
    /\ processed_data' = [processed_data EXCEPT ![t] = sensor_data]
    /\ pc' = [pc EXCEPT ![t] = "ps_entry"]
    /\ UNCHANGED <<catalogVars, readVars, collect_sensor_lock, pl_outcome, mqttVars>>

(* ---- the client's network loop thread and its callbacks ---- *)

\* CONNACK with reason code 0: _on_connect sets the flag
NetConnack ==
    /\ loop_running
    /\ mq_sock = "awaiting"
    /\ mq_sock' = "established"
    /\ is_connected' = TRUE
    /\ UNCHANGED <<catalogVars, pc, op, readVars, pipeVars, enabled, publish_individual,
                   connection_lock, loop_running, connectVars, publishVars>>

\* CONNACK with another reason code: _on_connect clears the flag and the
\* client drops the socket
NetConnackRefused ==
    /\ loop_running
    /\ mq_sock = "awaiting"
    /\ mq_sock' = "none"
    /\ is_connected' = FALSE
    /\ UNCHANGED <<catalogVars, pc, op, readVars, pipeVars, enabled, publish_individual,
                   connection_lock, loop_running, connectVars, publishVars>>

\* the connection is lost: _on_disconnect clears the flag
NetDisconnect ==
    /\ loop_running
    /\ mq_sock \in {"awaiting", "established"}
    /\ mq_sock' = "none"
    /\ is_connected' = FALSE
    /\ UNCHANGED <<catalogVars, pc, op, readVars, pipeVars, enabled, publish_individual,
                   connection_lock, loop_running, connectVars, publishVars>>

\* the running loop reconnects by itself after a lost connection
NetReconnect ==
    /\ loop_running
    /\ mq_sock = "none"
    /\ mq_sock' = "awaiting"
    /\ UNCHANGED <<catalogVars, pc, op, readVars, pipeVars, enabled, publish_individual,
                   is_connected, connection_lock, loop_running, connectVars, publishVars>>

NetworkStep ==
    \/ NetConnack
    \/ NetConnackRefused
    \/ NetDisconnect
    \/ NetReconnect

(* ---- specifications ---- *)

InitThreads ==
    /\ pc = [t \in Threads |-> "idle"]
    /\ op = [t \in Threads |-> "none"]
    /\ client = [t \in Threads |-> "none"]
    /\ start_address = [t \in Threads |-> 0]
    /\ registers_read = [t \in Threads |-> <<>>]
    /\ requests = [t \in Threads |-> <<>>]
    /\ rd_exc = [t \in Threads |-> "none"]
    /\ rd_ret = [t \in Threads |-> NoReturn]
    /\ collect_sensor_lock = 0
    /\ pl_outcome = [t \in Threads |-> "none"]
    /\ processed_data = [t \in Threads |-> <<>>]
    /\ is_connected = FALSE
    /\ connection_lock = 0
    /\ mq_sock = "none"
    /\ loop_running = FALSE
    /\ elapsed = [t \in Threads |-> 0]
    /\ cn_path = [t \in Threads |-> "none"]
    /\ cn_ret = [t \in Threads |-> FALSE]
    /\ net_io = [t \in Threads |-> {}]
    /\ pubs = [t \in Threads |-> <<>>]
    /\ ps_ret = [t \in Threads |-> NoReturn]
    /\ ind_todo = [t \in Threads |-> <<>>]
    /\ success_count = [t \in Threads |-> 0]
    /\ total_count = [t \in Threads |-> 0]
    /\ timestamp_str = [t \in Threads |-> None]
    /\ handed = {}

\* the catalog: every configuration source, imported
InitCatalog ==
    /\ config_file \in ConfigSources
    /\ REGISTER_CONFIG = Unloaded
    /\ modbus_globals = NoGlobals
    /\ boot = "start"
    /\ device = 0
    /\ enabled = TRUE
    /\ publish_individual = FALSE
    /\ InitThreads

NextCatalog ==
    \/ ImportConfig
    \/ ImportModbusClient
    \/ \E ip \in RequestIps, port \in RequestPorts : SetModbusConfig(ip, port)

SpecCatalog == InitCatalog /\ [][NextCatalog]_vars

\* the device reader: one caller of read_modbus_data, every configuration
\* source and every device image
InitRead ==
    /\ config_file \in ConfigSources
    /\ REGISTER_CONFIG = Unloaded
    /\ modbus_globals = NoGlobals
    /\ boot = "start"
    /\ device \in 0..(NumImages - 1)
    /\ enabled = TRUE
    /\ publish_individual = FALSE
    /\ InitThreads

NextRead ==
    \/ ImportConfig
    \/ ImportModbusClient
    \/ CallRead(1)
    \/ ReadStep(1)
    \/ Return(1)

SpecRead == InitRead /\ [][NextRead]_vars

\* the snapshots handed to the uploader directly
SessionSnapshots ==
    {<<<<"A", IntV(-1)>>, <<"B", None>>, <<"timestamp", StrV("<now>+08:00")>>,
       <<"device_id", DeviceId>>>>,
     <<<<"A", IntV(7)>>, <<"timestamp", None>>>>,
     <<<<"B", FloatV(5000)>>, <<"device_id", None>>>>,
     <<<<"A", IntV(7)>>, <<"timestamp", IntV(0)>>>>}

\* the one thread that drives the uploader
SessionCaller == 1

\* the uploader on its own: one caller, any sequence of connect(),
\* publish_sensor_data() and disconnect(), and the network loop thread
InitSession ==
    /\ config_file = [exists |-> FALSE, doc |-> <<>>]
    /\ REGISTER_CONFIG = Unloaded
    /\ modbus_globals = NoGlobals
    /\ boot = "start"
    /\ device = 0
    /\ enabled \in BOOLEAN
    /\ publish_individual \in BOOLEAN
    /\ InitThreads

NextSession ==
    \/ CallConnect(SessionCaller)
    \/ CallDisconnect(SessionCaller)
    \/ \E sensor_data \in SessionSnapshots : CallPublish(SessionCaller, sensor_data)
    \/ ConnectStep(SessionCaller)
    \/ PublishStep(SessionCaller)
    \/ DisconnectStep(SessionCaller)
    \/ Return(SessionCaller)
    \/ NetworkStep

\* a caller inside connect() or disconnect() keeps running
SpecSession ==
    /\ InitSession
    /\ [][NextSession]_vars
    /\ WF_vars(ConnectStep(SessionCaller))
    /\ WF_vars(DisconnectStep(SessionCaller))

\* the uploader under concurrent callers: every thread may call connect(),
\* next to the network loop thread
NextConnect ==
    \/ \E t \in Threads :
           \/ CallConnect(t)
           \/ ConnectStep(t)
           \/ Return(t)
    \/ NetworkStep

SpecConnect == InitSession /\ [][NextConnect]_vars

\* the configuration sources of the scheduled pipeline
PipelineSources ==
    {[exists |-> TRUE, doc |-> [registers |-> l, modbus |-> ModbusSection]] :
         l \in {<<RegA, RegB>>, <<RegC, RegD>>, <<RegH>>, <<>>}}

\* the device images whose word at address 10 has the sign bit set (images
\* repeat with the period of SampleWords); one of them holds 65535 at
\* address 10 and 50 at address 12
PipelineImages ==
    {k \in 0..(Len(SampleWords) - 1) : DeviceWord(k, 10) \in {65535, 32768}}

\* the whole program: the scheduler's ticks on every thread, the pipeline,
\* the uploader and its network loop
Init ==
    /\ config_file \in PipelineSources
    /\ REGISTER_CONFIG = Unloaded
    /\ modbus_globals = NoGlobals
    /\ boot = "start"
    /\ device \in PipelineImages
    /\ enabled \in BOOLEAN
    /\ publish_individual \in BOOLEAN
    /\ InitThreads

Next ==
    \/ ImportConfig
    \/ ImportModbusClient
    \/ \E t \in Threads :
           \/ Tick(t)
           \/ ReadStep(t)
           \/ PlAfterRead(t)
           \/ PlFinally(t)
           \/ PublishStep(t)
           \/ ConnectStep(t)
           \/ Return(t)
    \/ NetworkStep

Spec == Init /\ [][Next]_vars

(* ============================== claims =============================== *)

\* the cycle of thread t went through every chunk without a device error
CycleComplete(t) ==
    \/ pc[t] = "rd_loop" /\ start_address[t] > modbus_globals.MAX_ADDRESS_TO_READ
    \/ pc[t] \in {"rd_finally", "done", "pl_after_read"}
       /\ rd_exc[t] \in {"none", "AttributeError"}

\* read_modbus_data of thread t is over
ReadOver(t) == pc[t] \in {"done", "pl_after_read"}

\* C2: the (start, count) requests of a cycle are contiguous and ascending
\* from MIN_ADDRESS_TO_READ with every count in 1..64; once the cycle has
\* gone through every chunk without a device error they cover each address
\* of the span exactly once and the last one ends at MAX_ADDRESS_TO_READ
C2_Chunking ==
    \A t \in Threads :
        pc[t] \in {"rd_loop", "rd_finally", "done", "pl_after_read"} =>
        LET r == requests[t]
            lo == modbus_globals.MIN_ADDRESS_TO_READ
            hi == modbus_globals.MAX_ADDRESS_TO_READ
        IN  /\ \A i \in DOMAIN r : r[i][2] >= 1 /\ r[i][2] <= 64
            /\ r # <<>> => r[1][1] = lo
            /\ \A i \in DOMAIN r : i > 1 => r[i][1] = r[i - 1][1] + r[i - 1][2]
            /\ CycleComplete(t) =>
                   /\ r # <<>>
                   /\ r[Len(r)][1] + r[Len(r)][2] - 1 = hi
                   /\ \A a \in lo..hi :
                          Cardinality({i \in DOMAIN r :
                              r[i][1] <= a /\ a < r[i][1] + r[i][2]}) = 1

\* a completed cycle of three chunks, the last one shorter than 64
C2_Witness ==
    \E t \in Threads :
        /\ ReadOver(t) /\ CycleComplete(t)
        /\ Len(requests[t]) = 3
        /\ requests[t][3][2] < 64

\* C3: read_modbus_data never raises to its caller, and a cycle in which
\* anything failed (connect, device error response, exception while reading
\* or mapping) returns the empty mapping
C3_NeverRaises ==
    \A t \in Threads :
        /\ rd_ret[t].state # "raised"
        /\ (pc[t] \in {"rd_finally", "done", "pl_after_read"} /\ rd_exc[t] # "none") =>
               rd_ret[t] = [state |-> "returned", value |-> <<>>]

\* a device error response on a later chunk, after a chunk that was read
C3_Witness ==
    \E t \in Threads :
        /\ ReadOver(t)
        /\ rd_exc[t] = "ModbusError"
        /\ Len(requests[t]) >= 2
        /\ registers_read[t] # <<>>
        /\ rd_ret[t] = [state |-> "returned", value |-> <<>>]

\* C4: the device connection is open only inside read_modbus_data: once the
\* call is over, on any path, the connection it opened is not open
C4_ConnectionClosed ==
    \A t \in Threads : client[t] = "open" => pc[t] \in {"rd_loop", "rd_finally"}

\* the call is over after a device error on a chunk, and the connection
\* that was open when the error came is closed
C4_Witness ==
    \E t \in Threads :
        ReadOver(t) /\ rd_exc[t] = "ModbusError" /\ client[t] = "closed"

\* the signed 16-bit tags among the configuration sources
SignedTag(reg) == "dataType" \in DOMAIN reg /\ reg.dataType \in {"int16", "Signed"}

\* the last entry of the address index that carries this name decides it
DecidesName(by_address, i) ==
    \A j \in DOMAIN by_address :
        by_address[j][2].name = by_address[i][2].name => j <= i

\* C5: in the mapping read_modbus_data returns, a register with a signed
\* 16-bit tag whose raw word is w has value w when w <= 32767 and w - 65536
\* otherwise, always within -32768..32767; a register with any other or no
\* dataType has the raw word itself
C5_SignedReinterpretation ==
    \A t \in Threads :
        (ReadOver(t) /\ rd_exc[t] = "none" /\ rd_ret[t].state = "returned") =>
        \A i \in DOMAIN REGISTER_CONFIG.by_address :
            LET a == REGISTER_CONFIG.by_address[i][1]
                reg == REGISTER_CONFIG.by_address[i][2]
                w == DeviceWord(device, a)
            IN  (DecidesName(REGISTER_CONFIG.by_address, i)
                 /\ DictHas(registers_read[t], a)) =>
                LET got == DictGet(rd_ret[t].value, reg.name)
                IN  /\ got.kind = "int"
                    /\ SignedTag(reg) =>
                           /\ got.v = IF w <= 32767 THEN w ELSE w - 65536
                           /\ got.v >= -32768 /\ got.v <= 32767
                    /\ ~SignedTag(reg) => got.v = w

\* a signed register read as 32768 comes back as -32768 next to an
\* unsigned one whose word is passed through
C5_Witness ==
    \E t \in Threads :
        /\ ReadOver(t) /\ rd_exc[t] = "none" /\ rd_ret[t].state = "returned"
        /\ REGISTER_CONFIG.raw = <<RegA, RegB>>
        /\ DeviceWord(device, 10) = 32768
        /\ DictGet(rd_ret[t].value, "A") = IntV(-32768)
        /\ DictGet(rd_ret[t].value, "B") = IntV(DeviceWord(device, 12))

\* C7: for a non-empty register list the span bounds are defined addresses
\* that enclose every defined address, and total_register_count is the
\* length of the span
C7_CatalogSpan ==
    (REGISTER_CONFIG.ok /\ REGISTER_CONFIG.raw # <<>>) =>
    LET c == REGISTER_CONFIG
        defined == {c.raw[i].address : i \in DOMAIN c.raw}
    IN  /\ \A a \in defined : c.min_address <= a /\ a <= c.max_address
        /\ c.min_address \in defined
        /\ c.max_address \in defined
        /\ c.total_register_count = c.max_address - c.min_address + 1

\* two definitions spanning 131 addresses
C7_Witness ==
    /\ REGISTER_CONFIG.ok
    /\ Len(REGISTER_CONFIG.raw) = 2
    /\ REGISTER_CONFIG.min_address = 10
    /\ REGISTER_CONFIG.max_address = 140
    /\ REGISTER_CONFIG.total_register_count = 131

\* C8: for an empty register list min_address, max_address and
\* total_register_count are all 0
C8_EmptyCatalog ==
    (REGISTER_CONFIG.ok /\ REGISTER_CONFIG.raw = <<>>) =>
        /\ REGISTER_CONFIG.min_address = 0
        /\ REGISTER_CONFIG.max_address = 0
        /\ REGISTER_CONFIG.total_register_count = 0

\* a configuration with a modbus section and no registers was loaded
C8_Witness ==
    /\ REGISTER_CONFIG.ok
    /\ REGISTER_CONFIG.raw = <<>>
    /\ REGISTER_CONFIG.modbus_port # None

\* thread t is in process_and_upload_sensor_data, past the acquire and
\* before the release
PastAcquire(t) == op[t] = "pipeline" /\ pc[t] \notin {"idle", "done"}

\* C1: at most one invocation of process_and_upload_sensor_data is past the
\* lock acquisition, and it holds collect_sensor_lock; an invocation that
\* found the lock held has returned without a device request, without a
\* client call or publish, and without the lock
C1_MutualExclusion ==
    /\ Cardinality({t \in Threads : PastAcquire(t)}) <= 1
    /\ \A t \in Threads : PastAcquire(t) => collect_sensor_lock = t
    /\ \A t \in Threads :
           pl_outcome[t] = "skipped" =>
               /\ pc[t] = "done"
               /\ collect_sensor_lock # t
               /\ client[t] = "none"
               /\ requests[t] = <<>>
               /\ rd_ret[t] = NoReturn
               /\ net_io[t] = {}
               /\ pubs[t] = <<>>

\* a tick was skipped while another invocation is in the middle of its read
C1_Witness ==
    \E t, u \in Threads :
        /\ t # u
        /\ pl_outcome[t] = "skipped"
        /\ collect_sensor_lock = u
        /\ pc[u] = "rd_loop"
        /\ requests[u] # <<>>

\* the definition the catalog holds for a name: the last one in the list
DefinitionOf(name) ==
    LET raw == REGISTER_CONFIG.raw
        i == CHOOSE i \in DOMAIN raw :
                 /\ raw[i].name = name
                 /\ \A j \in DOMAIN raw : raw[j].name = name => j <= i
    IN  raw[i]

\* the declared scale factors, in thousandths
DeclaredScale(reg) ==
    CASE reg.scale = FloatV(100) -> 100
      [] reg.scale = IntV(2) -> 2000

\* processed_data of thread t has been built
Scaled(t) == processed_data[t] # <<>>

IsBulk(m) == m.topic = BulkTopic

\* C6: in the publish step a null value stays null, a value whose definition
\* declares a (numeric) scale becomes value * scale, a value without a
\* declared scale is passed through (as is one whose scale is no number),
\* and the bulk payload carries these values; with registers A (address 10,
\* signed) and B (address 12, unsigned, scale 0.1) and raw words 65535 and
\* 50 the published values are A = -1 and B = 5.0
C6_Scaling ==
    \A t \in Threads :
        Scaled(t) =>
        /\ \A i \in DOMAIN rd_ret[t].value :
               LET name == rd_ret[t].value[i][1]
                   raw_value == rd_ret[t].value[i][2]
                   reg == DefinitionOf(name)
                   got == DictGet(processed_data[t], name)
               IN  /\ raw_value = None => got = None
                   /\ (raw_value # None /\ "scale" \notin DOMAIN reg) => got = raw_value
                   /\ (raw_value # None /\ "scale" \in DOMAIN reg /\ reg.scale.kind # "str") =>
                          got = FloatV(raw_value.v * DeclaredScale(reg))
                   /\ (raw_value # None /\ "scale" \in DOMAIN reg /\ reg.scale.kind = "str") =>
                          got = raw_value
                   /\ \A k \in DOMAIN pubs[t] :
                          (IsBulk(pubs[t][k]) /\ got # None) =>
                              /\ DictHas(pubs[t][k].payload, name)
                              /\ DictGet(pubs[t][k].payload, name) = got
        /\ (/\ REGISTER_CONFIG.raw = <<RegA, RegB>>
            /\ DictHas(registers_read[t], 10) /\ DictGet(registers_read[t], 10) = 65535
            /\ DictHas(registers_read[t], 12) /\ DictGet(registers_read[t], 12) = 50) =>
               /\ DictGet(processed_data[t], "A") = IntV(-1)
               /\ DictGet(processed_data[t], "B") = FloatV(5000)
               /\ \A k \in DOMAIN pubs[t] :
                      IsBulk(pubs[t][k]) =>
                          /\ DictGet(pubs[t][k].payload, "A") = IntV(-1)
                          /\ DictGet(pubs[t][k].payload, "B") = FloatV(5000)

\* the scenario's snapshot was published to the bulk topic: A = -1, B = 5.0
C6_Witness ==
    \E t \in Threads :
        /\ pc[t] = "pl_finally"
        /\ REGISTER_CONFIG.raw = <<RegA, RegB>>
        /\ ps_ret[t] = [state |-> "returned", value |-> TRUE]
        /\ Len(pubs[t]) >= 1
        /\ pubs[t][1].topic = BulkTopic
        /\ pubs[t][1].rc = "MQTT_ERR_SUCCESS"
        /\ DictHas(pubs[t][1].payload, "A")
        /\ DictHas(pubs[t][1].payload, "B")
        /\ DictGet(pubs[t][1].payload, "A") = IntV(-1)
        /\ DictGet(pubs[t][1].payload, "B") = FloatV(5000)

\* C9: with publishing disabled no thread calls connect(), starts the
\* network loop or publishes, is_connected keeps its initial value, and
\* every publish_sensor_data call that returned has returned True
C9_DisabledPublish ==
    ~enabled =>
        /\ ~is_connected
        /\ mq_sock = "none"
        /\ ~loop_running
        /\ connection_lock = 0
        /\ \A t \in Threads :
               /\ cn_path[t] = "none"
               /\ pc[t] \notin {"cn_entry", "cn_lock", "cn_connect", "cn_wait", "cn_result"}
               /\ net_io[t] = {}
               /\ pubs[t] = <<>>
               /\ ps_ret[t].state = "returned" => ps_ret[t].value = TRUE

\* a snapshot was handed to the disabled uploader, which returned True
C9_Witness ==
    \E t \in Threads :
        /\ ~enabled
        /\ Scaled(t)
        /\ pc[t] = "pl_finally"
        /\ ps_ret[t] = [state |-> "returned", value |-> TRUE]

\* C10: a connect() that finds is_connected true under the lock returns
\* True in that step, leaves the session (flag, socket, network loop, lock)
\* as it was, and makes no client call
C10_ConnectIdempotent ==
    [][\A t \in Threads :
           (pc[t] = "cn_lock" /\ pc'[t] # "cn_lock" /\ enabled /\ is_connected) =>
               /\ pc'[t] = AfterConnect(t)
               /\ cn_ret'[t] = TRUE
               /\ UNCHANGED sessionVars
               /\ net_io'[t] = net_io[t]
               /\ pubs'[t] = pubs[t]]_vars

\* a later publish_sensor_data found the session connected: its connect()
\* returned True without a client call
C10_Witness ==
    \E t \in Threads :
        /\ enabled
        /\ is_connected
        /\ pc[t] = "ps_after_connect"
        /\ cn_path[t] = "already"
        /\ cn_ret[t] = TRUE
        /\ net_io[t] = {}

\* connect() of thread t has initiated the broker connection and not returned
InWait(t) == pc[t] \in {"cn_wait", "cn_result"}

\* C11: after initiating the broker connection connect() sleeps at most
\* timeout * PollsPerSecond times (10 s at 100 ms), the wait ends only with
\* the flag set or the deadline reached, the value returned is the flag as
\* read when the wait has ended (True, or False for the timeout), and a
\* connect() that waits always returns
C11_BoundedConnectWait ==
    /\ [](\A t \in Threads : elapsed[t] <= timeout * PollsPerSecond)
    /\ [][\A t \in Threads :
             /\ (pc[t] = "cn_wait" /\ pc'[t] = "cn_wait" /\ elapsed'[t] # elapsed[t]) =>
                    (~is_connected /\ elapsed'[t] = elapsed[t] + 1)
             /\ (pc[t] = "cn_wait" /\ pc'[t] # "cn_wait") =>
                    /\ pc'[t] = "cn_result"
                    /\ is_connected \/ elapsed[t] = timeout * PollsPerSecond
             /\ (pc[t] = "cn_result" /\ pc'[t] # "cn_result") =>
                    /\ pc'[t] = AfterConnect(t)
                    /\ cn_ret'[t] = is_connected]_vars
    /\ \A t \in Threads : InWait(t) ~> ~InWait(t)

\* the hundredth sleep is over and no acknowledgement has arrived: the wait
\* is at its deadline
C11_Witness ==
    \E t \in Threads :
        /\ pc[t] = "cn_wait"
        /\ elapsed[t] = timeout * PollsPerSecond
        /\ ~is_connected
        /\ mq_sock = "awaiting"
        /\ net_io[t] = {"connect", "loop_start"}

\* the flag is set although the client holds no connection: what a
\* client.connect() that raised leaves when the acknowledgement of an
\* earlier attempt came in just before it
StaleFlag == is_connected /\ mq_sock = "none"

C13_FailureContainment ==
    /\ [](\A t \in Threads :
              /\ (collect_sensor_lock = t) <=> PastAcquire(t)
              /\ pl_outcome[t] \in {"none", "acquired", "skipped", "no_data", "exception"})
    /\ [](collect_sensor_lock \in Threads \cup {0})
    /\ [][\A t \in Threads :
             /\ (collect_sensor_lock = t /\ collect_sensor_lock' # t) =>
                    /\ pc[t] = "pl_finally"
                    /\ pc'[t] = "done"
                    /\ collect_sensor_lock' = 0
             /\ (pc[t] = "pl_finally" /\ pc'[t] # "pl_finally") =>
                    /\ pc'[t] = "done"
                    /\ collect_sensor_lock = t
                    /\ collect_sensor_lock' = 0
             /\ (pc[t] = "idle" /\ op'[t] = "pipeline"
                 /\ \A u \in Threads : ~PastAcquire(u)) =>
                    /\ collect_sensor_lock' = t
                    /\ pl_outcome'[t] = "acquired"
                    /\ pc'[t] = "rd_connect"]_vars

\* an invocation ended by an exception has returned, and the tick after it
\* holds the lock and is reading
C13_Witness ==
    \E t, u \in Threads :
        /\ t # u
        /\ pl_outcome[t] = "exception"
        /\ pc[t] = "done"
        /\ collect_sensor_lock = u
        /\ pl_outcome[u] = "acquired"
        /\ pc[u] = "rd_loop"

\* the connect() of thread t's publish_sensor_data call has failed: the
\* wait timed out, or setting up the transport raised
ConnectGaveUp(t) == cn_path[t] \in {"handshake", "exception"} /\ ~cn_ret[t]

\* C14: a publish_sensor_data call whose connect() failed (timeout or
\* transport failure) returns False with nothing handed to client.publish;
\* the call enters connect() once, from its own entry, connect() calls
\* client.connect at most once, and after the failure the call goes
\* straight to its return: no second attempt within the call
C14_ConnectFailure ==
    /\ [](\A t \in Threads :
              (ConnectGaveUp(t) /\ ps_ret[t].state = "returned") =>
                  /\ ps_ret[t].value = FALSE
                  /\ pubs[t] = <<>>
                  /\ "connect" \in net_io[t])
    /\ [][\A t \in Threads :
             /\ (pc[t] # "cn_entry" /\ pc'[t] = "cn_entry") =>
                    (pc[t] = "ps_entry" /\ net_io[t] = {} /\ cn_path[t] = "none")
             /\ (pc[t] = "cn_connect" /\ pc'[t] # "cn_connect") =>
                    ("connect" \notin net_io[t] /\ "connect" \in net_io'[t])
             /\ ("connect" \notin net_io[t] /\ "connect" \in net_io'[t]) =>
                    pc[t] = "cn_connect"
             /\ (pc[t] = "ps_after_connect" /\ pc'[t] # "ps_after_connect"
                 /\ ConnectGaveUp(t)) =>
                    /\ pc'[t] = AfterPublish(t)
                    /\ ps_ret'[t] = [state |-> "returned", value |-> FALSE]
                    /\ pubs'[t] = <<>>
                    /\ net_io'[t] = net_io[t]]_vars

\* the wait for the acknowledgement timed out, and the publish call has
\* returned False without a publish
C14_Witness ==
    \E t \in Threads :
        /\ pc[t] = "pl_finally"
        /\ cn_path[t] = "handshake"
        /\ ~cn_ret[t]
        /\ ps_ret[t] = [state |-> "returned", value |-> FALSE]
        /\ pubs[t] = <<>>
        /\ net_io[t] = {"connect", "loop_start"}
        /\ ~is_connected

\* a payload with the value of its timestamp field blanked
Masked(payload) ==
    [i \in DOMAIN payload |->
        IF payload[i][1] = "timestamp" THEN <<"timestamp", StrV("*")>> ELSE payload[i]]

\* C15: the bulk payloads handed to the broker by two publish_sensor_data
\* calls with the same snapshot have the same fields in the same order with
\* the same values, the value of timestamp apart
C15_BulkDeterminism ==
    \A p, q \in handed : p[1] = q[1] => Masked(p[2]) = Masked(q[2])

\* the same snapshot was published at two instants, and the two payloads
\* differ (in their timestamp)
C15_Witness ==
    \E p, q \in handed :
        /\ p[1] = q[1]
        /\ p[2] # q[2]
        /\ DictHas(p[2], "A")
        /\ DictGet(p[2], "timestamp") # DictGet(q[2], "timestamp")

C17_AddressUniqueness ==
    REGISTER_CONFIG.ok =>
        /\ \A i, j \in DOMAIN REGISTER_CONFIG.raw :
               i # j => REGISTER_CONFIG.raw[i].address # REGISTER_CONFIG.raw[j].address
        /\ Len(REGISTER_CONFIG.by_address) = Len(REGISTER_CONFIG.raw)

\* the configuration source is missing, empty, or has a register entry
\* without name or without address
BadSource(file) ==
    \/ ~file.exists
    \/ DOMAIN file.doc = {}
    \/ /\ "registers" \in DOMAIN file.doc
       /\ \E i \in DOMAIN file.doc.registers :
              \/ "name" \notin DOMAIN file.doc.registers[i]
              \/ "address" \notin DOMAIN file.doc.registers[i]

\* C18: with a configuration source that is missing, empty, or has an entry
\* without name or address, the load raises: REGISTER_CONFIG is never bound
\* to a catalog, the import of the reader does not take place, and no
\* thread ever reads or publishes
C18_LoadFails ==
    BadSource(config_file) =>
        /\ ~REGISTER_CONFIG.ok
        /\ boot \in {"start", "crashed"}
        /\ boot = "crashed" =>
               REGISTER_CONFIG.error \in {"FileNotFoundError", "ValueError", "KeyError"}
        /\ modbus_globals = NoGlobals
        /\ \A t \in Threads : pc[t] = "idle" /\ requests[t] = <<>> /\ pubs[t] = <<>>

\* the load has raised KeyError on a register list whose second entry has
\* no address
C18_Witness ==
    /\ boot = "crashed"
    /\ REGISTER_CONFIG = Raised("KeyError")
    /\ config_file.exists
    /\ "registers" \in DOMAIN config_file.doc
    /\ config_file.doc.registers = <<RegA, RegNoAddress>>

\* the last request thread t has sent
LastRequest(t) == requests[t][Len(requests[t])]

\* C19: once a chunk has been answered with an error response the cycle is
\* out of the loop with the cursor still at the failing chunk, no request
\* follows the failing one, and the call returns the empty mapping whatever
\* the earlier chunks have read
C19_DeviceErrorAborts ==
    /\ [](\A t \in Threads :
              rd_exc[t] = "ModbusError" =>
                  /\ pc[t] \in {"rd_finally", "done", "pl_after_read"}
                  /\ requests[t] # <<>>
                  /\ start_address[t] = LastRequest(t)[1]
                  /\ rd_ret[t] = [state |-> "returned", value |-> <<>>])
    /\ [][\A t \in Threads :
             rd_exc[t] = "ModbusError" =>
                 (requests'[t] = requests[t] \/ requests'[t] = <<>>)]_vars

\* the second of three chunks was answered with an error response: the
\* words of the first chunk are dropped and the third is never requested
C19_Witness ==
    \E t \in Threads :
        /\ ReadOver(t)
        /\ rd_exc[t] = "ModbusError"
        /\ Len(requests[t]) = 2
        /\ DictHas(registers_read[t], modbus_globals.MIN_ADDRESS_TO_READ)
        /\ LastRequest(t)[1] + LastRequest(t)[2] <= modbus_globals.MAX_ADDRESS_TO_READ
        /\ rd_ret[t].value = <<>>

\* the addresses of the i-th request of thread t
ChunkAddresses(t, i) == requests[t][i][1]..(requests[t][i][1] + requests[t][i][2] - 1)

\* C20: a chunk answered without words leaves the loop running: the cursor
\* advances by the requested count after every answer that is no error, so
\* a cycle without error has requested every chunk of the span; each chunk
\* is then either stored whole or absent whole, and in the mapping returned
\* a defined register of an absent chunk is None while a defined register
\* of a stored chunk has its (reinterpreted) word
C20_EmptyChunkTolerated ==
    /\ [][\A t \in Threads :
             (pc[t] = "rd_loop" /\ requests'[t] # requests[t] /\ rd_exc'[t] = "none") =>
                 /\ pc'[t] = "rd_loop"
                 /\ start_address'[t] =
                        start_address[t] + requests'[t][Len(requests'[t])][2]]_vars
    /\ [](\A t \in Threads :
              (ReadOver(t) /\ rd_exc[t] = "none" /\ rd_ret[t].state = "returned") =>
                  /\ requests[t] # <<>>
                  /\ LastRequest(t)[1] + LastRequest(t)[2] - 1 =
                         modbus_globals.MAX_ADDRESS_TO_READ
                  /\ \A i \in DOMAIN requests[t] :
                         \/ \A a \in ChunkAddresses(t, i) : DictHas(registers_read[t], a)
                         \/ \A a \in ChunkAddresses(t, i) : ~DictHas(registers_read[t], a)
                  /\ \A i \in DOMAIN REGISTER_CONFIG.by_address :
                         LET a == REGISTER_CONFIG.by_address[i][1]
                             reg == REGISTER_CONFIG.by_address[i][2]
                         IN  DecidesName(REGISTER_CONFIG.by_address, i) =>
                                 /\ DictHas(rd_ret[t].value, reg.name)
                                 /\ DictGet(rd_ret[t].value, reg.name) =
                                        IF DictHas(registers_read[t], a)
                                        THEN IntV(Reinterpret(reg, DeviceWord(device, a)))
                                        ELSE None)

\* the first of three chunks came back without words and the last with
\* them: A, defined in the first, is None, and D, defined in the last, has
\* its value
C20_Witness ==
    \E t \in Threads :
        /\ ReadOver(t) /\ rd_exc[t] = "none" /\ rd_ret[t].state = "returned"
        /\ REGISTER_CONFIG.raw = <<RegA, RegD>>
        /\ Len(requests[t]) = 3
        /\ ~DictHas(registers_read[t], 10)
        /\ DictGet(rd_ret[t].value, "A") = None
        /\ DictGet(rd_ret[t].value, "D") = IntV(Reinterpret(RegD, DeviceWord(device, 140)))

\* the names of the definitions in the address index
IndexedNames == {REGISTER_CONFIG.by_address[i][2].name : i \in DOMAIN REGISTER_CONFIG.by_address}

\* C21: the mapping returned by a cycle without error has one entry for each
\* name of the address index and no other entry, and each value is None or
\* the (reinterpreted) word of an address that has a definition of that name:
\* a word read at an address without a definition is in no entry
C21_GapsDropped ==
    \A t \in Threads :
        (ReadOver(t) /\ rd_exc[t] = "none" /\ rd_ret[t].state = "returned") =>
            /\ DictKeys(rd_ret[t].value) = IndexedNames
            /\ Len(rd_ret[t].value) = Cardinality(IndexedNames)
            /\ \A k \in DOMAIN rd_ret[t].value :
                   \/ rd_ret[t].value[k][2] = None
                   \/ \E i \in DOMAIN REGISTER_CONFIG.by_address :
                          LET a == REGISTER_CONFIG.by_address[i][1]
                              reg == REGISTER_CONFIG.by_address[i][2]
                          IN  /\ reg.name = rd_ret[t].value[k][1]
                              /\ DictHas(registers_read[t], a)
                              /\ rd_ret[t].value[k][2] =
                                     IntV(Reinterpret(reg, DictGet(registers_read[t], a)))

\* B at 12 and C at 75: the 64 words of the span were read and stored, and
\* the mapping returned has the two names and nothing of the 62 words between
C21_Witness ==
    \E t \in Threads :
        /\ ReadOver(t) /\ rd_exc[t] = "none" /\ rd_ret[t].state = "returned"
        /\ REGISTER_CONFIG.raw = <<RegB, RegC>>
        /\ Len(registers_read[t]) = 64
        /\ DictHas(registers_read[t], 13)
        /\ Len(rd_ret[t].value) = 2
        /\ DictKeys(rd_ret[t].value) = {"B", "C"}

\* C22: is_connected is written only while _connection_lock is held: a step
\* that changes the flag is taken with the lock held
C22_CallbacksUnderLock ==
    [][is_connected' # is_connected => connection_lock # 0]_vars

\* thread t is inside the with block of connect()
InHandshake(t) == pc[t] \in {"cn_connect", "cn_wait", "cn_result"}

\* C23: at most one thread is between the acquire of connect() and the end
\* of its wait, and it holds _connection_lock; a caller at the acquire moves
\* on only when no thread holds the lock; a handshake that returns True
\* leaves the flag set as it releases the lock; and a caller that gets the
\* lock with the flag set returns True in that step with no client call
\* and the session as it was
C23_HandshakeExclusion ==
    /\ [](Cardinality({t \in Threads : InHandshake(t)}) <= 1)
    /\ [](\A t \in Threads : InHandshake(t) <=> connection_lock = t)
    /\ [][\A t \in Threads :
             /\ (pc[t] = "cn_lock" /\ pc'[t] # "cn_lock") =>
                    /\ connection_lock = 0
                    /\ \A u \in Threads : ~InHandshake(u)
             /\ (pc[t] = "cn_result" /\ pc'[t] # "cn_result" /\ cn_ret'[t]) =>
                    (is_connected' /\ connection_lock' = 0)
             /\ (pc[t] = "cn_lock" /\ pc'[t] # "cn_lock" /\ is_connected) =>
                    /\ cn_ret'[t] = TRUE
                    /\ pc'[t] = AfterConnect(t)
                    /\ net_io'[t] = {}
                    /\ UNCHANGED sessionVars]_vars

\* one caller has returned True from its handshake, and the other has
\* returned True from the test under the lock, without a client call
C23_Witness ==
    \E t, u \in Threads :
        /\ t # u
        /\ pc[t] = "done" /\ cn_path[t] = "handshake" /\ cn_ret[t]
        /\ net_io[t] = {"connect", "loop_start"}
        /\ pc[u] = "done" /\ cn_path[u] = "already" /\ cn_ret[u]
        /\ net_io[u] = {}
        /\ is_connected

\* thread t's invocation is in its upload part: scaling is done or the
\* uploader has been entered
Uploading(t) ==
    /\ op[t] = "pipeline"
    /\ \/ Scaled(t)
       \/ pc[t] \in {"ps_entry", "cn_entry", "cn_lock", "cn_connect", "cn_wait", "cn_result",
                     "ps_after_connect", "ps_individual"}
       \/ pubs[t] # <<>>
       \/ net_io[t] # {}

\* C24: an invocation that has scaled, entered the uploader, called the
\* broker client or published has its read returned with a non-empty
\* mapping and its device connection closed, and sends the device no
\* request from then on; an invocation whose read returned the empty mapping
\* goes from the read straight to its finally clause, recorded as no_data,
\* with no client call and no publish
C24_ReadBeforePublish ==
    /\ [](\A t \in Threads :
              /\ Uploading(t) =>
                     /\ rd_ret[t].state = "returned"
                     /\ rd_ret[t].value # <<>>
                     /\ client[t] = "closed"
                     /\ pc[t] \notin {"rd_connect", "rd_loop", "rd_finally", "pl_after_read"}
              /\ pl_outcome[t] = "no_data" =>
                     /\ pc[t] \in {"pl_finally", "done"}
                     /\ pubs[t] = <<>>
                     /\ net_io[t] = {}
                     /\ cn_path[t] = "none")
    /\ [][\A t \in Threads :
             /\ Uploading(t) => (requests'[t] = requests[t] \/ requests'[t] = <<>>)
             /\ (pc[t] = "pl_after_read" /\ pc'[t] # "pl_after_read"
                 /\ rd_ret[t] = [state |-> "returned", value |-> <<>>]) =>
                    /\ pc'[t] = "pl_finally"
                    /\ pl_outcome'[t] = "no_data"
                    /\ pubs'[t] = <<>>
                    /\ net_io'[t] = {}
                    /\ UNCHANGED sessionVars]_vars

\* the invocation is waiting for the broker's acknowledgement: its two
\* chunks were read before and its device connection is closed
C24_Witness ==
    \E t \in Threads :
        /\ op[t] = "pipeline"
        /\ pc[t] = "cn_wait"
        /\ Scaled(t)
        /\ Len(requests[t]) = 2
        /\ client[t] = "closed"
        /\ pubs[t] = <<>>

\* C25: the first message a publish_sensor_data call hands to the client,
\* and no other, goes to the bulk topic; its payload has each field of the
\* snapshot other than timestamp and device_id with its value when that is
\* not None and not at all when it is None, has timestamp (the snapshot's
\* string, or the time of the call) and device_id (the snapshot's value)
\* exactly when the snapshot has these keys, and has no other field; and a
\* call of the enabled uploader that returned True has published it, with
\* success
C25_BulkPayloadContent ==
    \A t \in Threads :
        /\ \A k \in DOMAIN pubs[t] : IsBulk(pubs[t][k]) <=> k = 1
        /\ (enabled /\ ps_ret[t] = [state |-> "returned", value |-> TRUE]) =>
               (pubs[t] # <<>> /\ pubs[t][1].rc = "MQTT_ERR_SUCCESS")
        /\ pubs[t] # <<>> =>
               LET sensor_data == processed_data[t]
                   payload == pubs[t][1].payload
               IN  /\ DictKeys(payload) \subseteq DictKeys(sensor_data)
                   /\ Len(payload) = Cardinality(DictKeys(payload))
                   /\ \A i \in DOMAIN sensor_data :
                          LET key == sensor_data[i][1]
                              value == sensor_data[i][2]
                          IN  CASE key = "timestamp" ->
                                       /\ DictHas(payload, key)
                                       /\ DictGet(payload, key).kind = "str"
                                       /\ value.kind = "str" => DictGet(payload, key) = value
                                [] key = "device_id" ->
                                       /\ DictHas(payload, key)
                                       /\ DictGet(payload, key) = value
                                [] OTHER ->
                                       IF value = None THEN ~DictHas(payload, key)
                                       ELSE /\ DictHas(payload, key)
                                            /\ DictGet(payload, key) = value

\* a snapshot with A = -1, B = None, a timestamp and a device id was
\* published: the bulk payload went first, with A, the timestamp and the
\* device id and without B, then the message for A, and the call returned
\* True
C25_Witness ==
    \E t \in Threads :
        /\ op[t] = "publish"
        /\ ps_ret[t] = [state |-> "returned", value |-> TRUE]
        /\ DictHas(processed_data[t], "B")
        /\ Len(pubs[t]) >= 2
        /\ pubs[t][1].topic = BulkTopic
        /\ DictKeys(pubs[t][1].payload) = {"A", "timestamp", "device_id"}
        /\ DictGet(pubs[t][1].payload, "A") = IntV(-1)
        /\ pubs[t][2].topic = IndividualTopic("A")

\* C26: with individual publishing on, a call whose bulk publish succeeded
\* has, when it returns, handed the client one message after the bulk one
\* for each field of the snapshot that is neither timestamp nor None, in the
\* snapshot's order, each to the field's topic with the field's value,
\* whatever the results of the earlier ones, and returns True exactly when
\* all of them succeeded; a call whose bulk publish failed returns False
\* with the bulk message the only one handed over
C26_IndividualPublishing ==
    \A t \in Threads :
        pubs[t] # <<>> =>
        LET NonNull(item) == item[1] # "timestamp" /\ item[2] # None
            fields == SelectSeq(processed_data[t], NonNull)
        IN  /\ (pubs[t][1].rc # "MQTT_ERR_SUCCESS") =>
                   /\ Len(pubs[t]) = 1
                   /\ pc[t] # "ps_individual"
                   /\ ps_ret[t] = [state |-> "returned", value |-> FALSE]
            /\ (publish_individual /\ pubs[t][1].rc = "MQTT_ERR_SUCCESS"
                /\ ps_ret[t].state = "returned") =>
                   /\ Len(pubs[t]) = 1 + Len(fields)
                   /\ \A i \in DOMAIN fields :
                          /\ pubs[t][i + 1].topic = IndividualTopic(fields[i][1])
                          /\ DictGet(pubs[t][i + 1].payload, "value") = fields[i][2]
                          /\ DictGet(pubs[t][i + 1].payload, "sensor") = StrV(fields[i][1])
                   /\ ps_ret[t].value =
                          (\A i \in DOMAIN fields : pubs[t][i + 1].rc = "MQTT_ERR_SUCCESS")

\* the message for the first field failed, the one for the second field
\* was still handed over and succeeded, and the call returned False
C26_Witness ==
    \E t \in Threads :
        /\ publish_individual
        /\ ps_ret[t] = [state |-> "returned", value |-> FALSE]
        /\ Len(pubs[t]) = 3
        /\ pubs[t][1].rc = "MQTT_ERR_SUCCESS"
        /\ pubs[t][2].rc # "MQTT_ERR_SUCCESS"
        /\ pubs[t][3].rc = "MQTT_ERR_SUCCESS"
        /\ pubs[t][3].topic = IndividualTopic("device_id")

\* the number of words asked for by the requests r[i..]
RECURSIVE WordsRequested(_, _)
WordsRequested(r, i) == IF i > Len(r) THEN 0 ELSE r[i][2] + WordsRequested(r, i + 1)

\* C27: a cycle that went through without error has asked the device for
\* total_register_count words in all, and with a total_register_count of 0
\* no request is ever sent
C27_WordsRequested ==
    \A t \in Threads :
        /\ (ReadOver(t) /\ rd_exc[t] = "none" /\ rd_ret[t].state = "returned") =>
               WordsRequested(requests[t], 1) = REGISTER_CONFIG.total_register_count
        /\ (REGISTER_CONFIG.ok /\ REGISTER_CONFIG.total_register_count = 0) =>
               requests[t] = <<>>

\* the last connect() of thread t has returned False after a timeout or an
\* exception, and t has not entered connect() again
FailedConnect(t) ==
    /\ ConnectGaveUp(t)
    /\ pc[t] \notin {"cn_entry", "cn_lock", "cn_connect", "cn_wait", "cn_result"}

\* C28: once a connect() has returned False after a timeout or an exception
\* the network loop is not running, the flag does not rise while no thread
\* is inside connect(), and loop_start is never called on a running loop
C28_NoLoopLeftBehind ==
    /\ [](\A t \in Threads : FailedConnect(t) => ~loop_running)
    /\ [][(~is_connected /\ is_connected') => \E t \in Threads : InWait(t)]_vars
    /\ [][\A t \in Threads :
             ("loop_start" \notin net_io[t] /\ "loop_start" \in net_io'[t]) =>
                 ~loop_running]_vars

\* C29: every message is handed to client.publish in a state where
\* is_connected is true
C29_PublishOnlyConnected ==
    [][\A t \in Threads : Len(pubs'[t]) > Len(pubs[t]) => is_connected]_vars

====
